---- MODULE Spec2Model ----
(***************************************************************************)
(* Model of the three MP-SPDZ fixture generators:                          *)
(*   gen_activation_inputs.py  (threshold / LTZ vector, party 0 only)      *)
(*   gen_conv_inputs.py        (2D convolution: A for party 0, W for 1)    *)
(*   gen_linear_inputs.py      (linear layer: x for party 0, W and b for 1)*)
(* One run of a script is a walk of pc through main(); the file system,    *)
(* the process-wide PRNG and the exit status are the state.  A finished    *)
(* run may be followed by a second run of the same script with the same    *)
(* seed, shape, bits and signedness (Rerun).                               *)
(***************************************************************************)
EXTENDS Integers, Sequences, FiniteSets, TLC

\* ---------------------------------------------------------------- bounds
\* Largest shape dimension given on the command line (smallest is -1).
MaxDim == 2
\* Largest "small" bit width given on the command line (besides 31 and 32).
MaxSmallBits == 2
\* Largest seed given on the command line.
MaxSeed == 1
\* Number of states of the stand-in for the Mersenne twister behind
\* random.seed / random.randint.
RngMod == 16

\* ------------------------------------------------------- program constants
\* Largest accepted bit width: "args.bits > 31".
MaxBits == 31

\* ------------------------------------------------------------ the inputs
Scripts == {"activation", "conv", "linear"}
DimInputs == -1..MaxDim
\* The convolution script is given three dimensions; 0 stands for the
\* non-positive ones its first check rejects.
ConvDimInputs == 0..MaxDim
BitsInputs == (0..MaxSmallBits) \cup {MaxBits, MaxBits + 1}
SeedInputs == 0..MaxSeed
DirInputs == {"Player-Data"}
FileInputs == {"Input-P0-0", "Input-P1-0"}
\* The PRNG state the interpreter starts with (seeded from OS entropy).
EntropyInputs == {2, 11}

\* os.path.join(args.dir, args.p0_file)
join(d, f) == d \o "/" \o f

Paths == {join(d, f) : d \in DirInputs, f \in FileInputs}

\* A file left at a target path by an earlier, unrelated program.
Stale == <<"7", "\n", "7", "\n", "7", "\n">>

\* --------------------------------------------------------- text rendering
Digits == <<"0", "1", "2", "3", "4", "5", "6", "7", "8", "9">>

RECURSIVE StrNat(_)
\* str() of a non-negative int: decimal digits, no leading zero.
StrNat(n) ==
    IF n < 10 THEN <<Digits[n + 1]>>
    ELSE StrNat(n \div 10) \o <<Digits[(n % 10) + 1]>>

\* str(r()): Python's decimal rendering of an int.
str(n) == IF n < 0 THEN <<"-">> \o StrNat(-n) ELSE StrNat(n)

RECURSIVE JoinSp(_)
\* " ".join(tokens)
JoinSp(toks) ==
    IF toks = <<>> THEN <<>>
    ELSE IF Len(toks) = 1 THEN toks[1]
    ELSE toks[1] \o <<" ">> \o JoinSp(Tail(toks))

\* ------------------------------------------------------------ validation
\* "if args.bits <= 0 or args.bits > 31: raise SystemExit(...)"
BitsInvalid(bits) == bits <= 0 \/ bits > MaxBits

\* "if LEN <= 0" (activation)
LenInvalid(len) == len <= 0

\* "if A_ROWS <= 0 or A_COLS <= 0 or W_DIM <= 0" (conv)
ConvDimsInvalid(a_rows, a_cols, w_dim) == a_rows <= 0 \/ a_cols <= 0 \/ w_dim <= 0

\* A slip: the kernel is compared with the rows of A only.
KernelTooLarge_RowsOnly(a_rows, a_cols, w_dim) == w_dim > a_rows

\* "if W_DIM > A_ROWS or W_DIM > A_COLS" (conv)
KernelTooLarge(a_rows, a_cols, w_dim) == w_dim > a_rows \/ w_dim > a_cols

\* ------------------------------------------------------- range derivation
\* 1 << k
Shl1(k) == 2 ^ k

\* lo of the branch taken for (bits, signed)
RangeLo(bits, signed) == IF signed THEN -Shl1(bits - 1) ELSE 0

\* hi of the branch taken for (bits, signed); (1 << bits) - 1 is formed as
\* ((1 << (bits - 1)) - 1) + (1 << (bits - 1)), which never exceeds 2^31 - 1.
RangeHi(bits, signed) ==
    IF signed THEN Shl1(bits - 1) - 1 ELSE (Shl1(bits - 1) - 1) + Shl1(bits - 1)

\* A slip: --unsigned is ignored.
UseSigned_IgnoresUnsigned(a_signed, a_unsigned) == a_signed

\* "use_signed = args.signed and not args.unsigned" (activation)
UseSigned(a_signed, a_unsigned) == a_signed /\ ~a_unsigned

\* ------------------------------------------------------------------ PRNG
\* random.seed(args.seed): the state is a function of the seed alone.
SeedState(seed) == (seed * 7 + 1) % RngMod

\* The generator's state after one draw.
Advance(s) == (s * 5 + 3) % RngMod

\* A slip: a narrow range is sampled one past its upper end.
randint_OnePastHi(s, l, h) ==
    LET span == h - l
        off  == IF span >= RngMod - 1 THEN s ELSE s % (span + 2)
    IN  IF span >= RngMod - 1 /\ s % 2 = 1 THEN h - off ELSE l + off

\* random.randint(lo, hi) from the state s reached by the draw: an integer
\* of [lo, hi], both ends included.  Even outputs count up from lo, odd ones
\* down from hi, so both ends of a wide range are drawn.
randint(s, l, h) ==
    LET span == h - l
        off  == IF span >= RngMod - 1 THEN s ELSE s % (span + 1)
    IN  IF span >= RngMod - 1 /\ s % 2 = 1 THEN h - off ELSE l + off

RECURSIVE DrawRow(_, _, _, _)
\* "str(r()) for _ in range(k)": k successive draws from state s; the result
\* is <<values, state after the last draw>>.  range(k) is empty for k <= 0.
DrawRow(s, k, l, h) ==
    IF k <= 0 THEN <<<<>>, s>>
    ELSE LET s1   == Advance(s)
             rest == DrawRow(s1, k - 1, l, h)
         IN  <<<<randint(s1, l, h)>> \o rest[1], rest[2]>>

RECURSIVE StrAll(_)
StrAll(vals) == IF vals = <<>> THEN <<>> ELSE <<str(Head(vals))>> \o StrAll(Tail(vals))

\* The text of one row: " ".join(str(r()) for _ in range(k)) and "\n".
RowText(vals) == JoinSp(StrAll(vals)) \o <<"\n">>

\* ------------------------------------------------------------ file system
\* open(path, "w"): the file exists and is empty afterwards.
OpenW(fs, p) == [q \in (DOMAIN fs) \cup {p} |-> IF q = p THEN <<>> ELSE fs[q]]

\* f.write(text) on the file opened at p.
Write(fs, p, text) == [fs EXCEPT ![p] = @ \o text]

\* ------------------------------------------------------------------ state
VARIABLES
    gen,      \* the script that runs
    argv,     \* its command line
    args,     \* the Namespace parse_args() returns
    pc,       \* the position in main()
    status,   \* the exit status of the process (0 while it runs)
    rng,      \* the state of the process-wide PRNG
    lo, hi,   \* the value range (hi < lo: not assigned yet)
    i,        \* rows written by the loop that runs
    dirs,     \* the directories that exist
    files,    \* the files that exist: path -> text
    out,      \* summary lines printed
    exc,      \* the exception raised inside the try block ("none": none)
    draws,    \* history: the values r() returned in this run, in order
    seeds,    \* history: calls of random.seed in this run
    opened,   \* history: the paths this run opened for writing
    closed,   \* history: the paths whose with block this run has left
    run,      \* 1: first run, 2: the run that repeats it
    first,    \* history: the command line of the first run and the party files it left
    files0,   \* history: the files when this run started
    dirs0     \* history: the directories when this run started

vars == <<gen, argv, args, pc, status, rng, lo, hi, i, dirs, files, out, exc,
          draws, seeds, opened, closed, run, first, files0, dirs0>>

\* The command lines tried, per script.
ArgvOf(g) ==
    CASE g = "activation" ->
           [len : DimInputs, seed : SeedInputs, bits : BitsInputs,
            signed : BOOLEAN, unsigned : BOOLEAN,
            dir : DirInputs, p0_file : FileInputs]
      [] g = "conv" ->
           [a_rows : ConvDimInputs, a_cols : ConvDimInputs, w_dim : ConvDimInputs,
            seed : SeedInputs, bits : BitsInputs,
            signed : BOOLEAN, unsigned : BOOLEAN,
            dir : DirInputs, p0_file : FileInputs, p1_file : FileInputs]
      [] g = "linear" ->
           [n : DimInputs, seed : SeedInputs, bits : BitsInputs,
            signed : BOOLEAN, unsigned : BOOLEAN,
            dir : DirInputs, p0_file : FileInputs, p1_file : FileInputs]

NoArgs == [parsed |-> FALSE]

NoFirst == [party |-> <<>>]

\* The file system a run may find: nothing there, or the directory with a
\* stale file at every target path.
FsInputs ==
    { [d |-> {}, f |-> <<>>] }
    \cup { [d |-> {dd}, f |-> [p \in {join(dd, ff) : ff \in FileInputs} |-> Stale]] :
             dd \in DirInputs }

Init ==
    /\ gen \in Scripts
    /\ argv \in ArgvOf(gen)
    /\ args = NoArgs
    /\ pc = "parse_args"
    /\ status = 0
    /\ rng \in EntropyInputs
    /\ lo = 0 /\ hi = -1
    /\ i = 0
    /\ \E fs \in FsInputs : dirs = fs.d /\ files = fs.f
    /\ out = 0
    /\ exc = "none"
    /\ draws = <<>>
    /\ seeds = 0
    /\ opened = {}
    /\ closed = {}
    /\ run = 1
    /\ first = NoFirst
    /\ files0 = files
    /\ dirs0 = dirs

\* ------------------------------------------------------- steps they share
\* raise SystemExit("..."): the message goes to stderr, the status is 1.
SystemExit ==
    /\ pc' = "exit"
    /\ status' = 1

\* The try block of the summary: nstat calls of Path.stat, then nprint calls
\* of print, the first of which writes a non-ASCII check mark.  Any one of
\* them may raise; the block runs to its end otherwise.
TrySummary(nstat, nprint) ==
    \/ /\ exc' = "none" /\ out' = nprint /\ pc' = "return"
    \/ /\ exc' = "OSError" /\ out' = 0 /\ pc' = "except"
    \/ \E k \in 0..(nprint - 1) :
         /\ exc' \in (IF k < nstat THEN {"OSError", "UnicodeEncodeError"} ELSE {"OSError"})
         /\ out' = k
         /\ pc' = "except"

\* A slip: "except OSError:" lets the encoding error of print through.
Caught_OSErrorOnly(e) == e = "OSError"

\* "except Exception:" catches the exception classes print and stat raise.
Caught(e) == e \in {"OSError", "UnicodeEncodeError"}

\* "except Exception: pass"
ExceptPass ==
    /\ pc = "except"
    /\ IF Caught(exc)
         THEN pc' = "return" /\ status' = status
         ELSE pc' = "exit" /\ status' = 1
    /\ exc' = "none"
    /\ UNCHANGED <<gen, argv, args, rng, lo, hi, i, dirs, files, out,
                   draws, seeds, run, first, files0, dirs0,
                   opened, closed>>

\* main() returns None and sys.exit(None) ends the process with status 0.
Return ==
    /\ pc = "return"
    /\ pc' = "exit"
    /\ status' = 0
    /\ UNCHANGED <<gen, argv, args, rng, lo, hi, i, dirs, files, out, exc,
                   draws, seeds, run, first, files0, dirs0,
                   opened, closed>>

\* ------------------------------------------- gen_activation_inputs.py main
\* ap.parse_args(): --signed is store_true with default=True, so args.signed
\* is True whether or not the option is given.
ActParseArgs ==
    /\ gen = "activation" /\ pc = "parse_args"
    /\ args' = [len |-> argv.len, seed |-> argv.seed, bits |-> argv.bits,
                signed |-> TRUE, unsigned |-> argv.unsigned,
                dir |-> argv.dir, p0_file |-> argv.p0_file]
    /\ pc' = "check_len"
    /\ UNCHANGED <<gen, argv, status, rng, lo, hi, i, dirs, files, out, exc,
                   draws, seeds, run, first, files0, dirs0,
                   opened, closed>>

ActCheckLen ==
    /\ gen = "activation" /\ pc = "check_len"
    /\ IF LenInvalid(args.len) THEN SystemExit
                               ELSE pc' = "seed" /\ status' = status
    /\ UNCHANGED <<gen, argv, args, rng, lo, hi, i, dirs, files, out, exc,
                   draws, seeds, run, first, files0, dirs0,
                   opened, closed>>

ActSeed ==
    /\ gen = "activation" /\ pc = "seed"
    /\ rng' = SeedState(args.seed)
    /\ seeds' = seeds + 1
    /\ pc' = "check_bits"
    /\ UNCHANGED <<gen, argv, args, status, lo, hi, i, dirs, files, out, exc,
                   draws, run, first, files0, dirs0,
                   opened, closed>>

ActCheckBits ==
    /\ gen = "activation" /\ pc = "check_bits"
    /\ IF BitsInvalid(args.bits) THEN SystemExit
                                 ELSE pc' = "range" /\ status' = status
    /\ UNCHANGED <<gen, argv, args, rng, lo, hi, i, dirs, files, out, exc,
                   draws, seeds, run, first, files0, dirs0,
                   opened, closed>>

ActRange ==
    /\ gen = "activation" /\ pc = "range"
    /\ lo' = RangeLo(args.bits, UseSigned(args.signed, args.unsigned))
    /\ hi' = RangeHi(args.bits, UseSigned(args.signed, args.unsigned))
    /\ pc' = "makedirs"
    /\ UNCHANGED <<gen, argv, args, status, rng, i, dirs, files, out, exc,
                   draws, seeds, run, first, files0, dirs0,
                   opened, closed>>

\* os.makedirs(args.dir, exist_ok=True)
ActMakedirs ==
    /\ gen = "activation" /\ pc = "makedirs"
    /\ dirs' = dirs \cup {args.dir}
    /\ pc' = "open0"
    /\ UNCHANGED <<gen, argv, args, status, rng, lo, hi, i, files, out, exc,
                   draws, seeds, run, first, files0, dirs0,
                   opened, closed>>

ActOpen0 ==
    /\ gen = "activation" /\ pc = "open0"
    /\ files' = OpenW(files, join(args.dir, args.p0_file))
    /\ i' = 0
    /\ pc' = "write0"
    /\ opened' = opened \cup {join(args.dir, args.p0_file)}
    /\ UNCHANGED <<gen, argv, args, status, rng, lo, hi, dirs, out, exc,
                   draws, seeds, run, first, files0, dirs0,
                   closed>>

\* One pass of "for _ in range(LEN): f0.write(f"{r()}\n")".
ActWrite0 ==
    /\ gen = "activation" /\ pc = "write0" /\ i < args.len
    /\ LET d == DrawRow(rng, 1, lo, hi)
       IN  /\ files' = Write(files, join(args.dir, args.p0_file), RowText(d[1]))
           /\ draws' = draws \o d[1]
           /\ rng' = d[2]
    /\ i' = i + 1
    /\ UNCHANGED <<gen, argv, args, pc, status, lo, hi, dirs, out, exc,
                   seeds, run, first, files0, dirs0,
                   opened, closed>>

\* The loop ends and the with block closes f0.
ActClose0 ==
    /\ gen = "activation" /\ pc = "write0" /\ i >= args.len
    /\ pc' = "summary"
    /\ closed' = closed \cup {join(args.dir, args.p0_file)}
    /\ UNCHANGED <<gen, argv, args, status, rng, lo, hi, i, dirs, files, out, exc,
                   draws, seeds, run, first, files0, dirs0,
                   opened>>

ActSummary ==
    /\ gen = "activation" /\ pc = "summary"
    /\ TrySummary(1, 2)
    /\ UNCHANGED <<gen, argv, args, status, rng, lo, hi, i, dirs, files,
                   draws, seeds, run, first, files0, dirs0,
                   opened, closed>>

ActNext ==
    \/ ActParseArgs \/ ActCheckLen \/ ActSeed \/ ActCheckBits \/ ActRange
    \/ ActMakedirs \/ ActOpen0 \/ ActWrite0 \/ ActClose0 \/ ActSummary

\* ------------------------------------------------- gen_conv_inputs.py main
\* ap.parse_args(): the script declares --signed (store_true, default
\* False) and no --unsigned: argparse rejects the unknown option, status 2.
ConvParseArgs ==
    /\ gen = "conv" /\ pc = "parse_args"
    /\ IF argv.unsigned
         THEN /\ pc' = "exit" /\ status' = 2 /\ args' = args
         ELSE /\ args' = [a_rows |-> argv.a_rows, a_cols |-> argv.a_cols,
                          w_dim |-> argv.w_dim, seed |-> argv.seed,
                          bits |-> argv.bits, signed |-> argv.signed,
                          dir |-> argv.dir, p0_file |-> argv.p0_file,
                          p1_file |-> argv.p1_file]
              /\ pc' = "check_dims" /\ status' = status
    /\ UNCHANGED <<gen, argv, rng, lo, hi, i, dirs, files, out, exc, draws, seeds, run, first, files0, dirs0,
                   opened, closed>>

ConvCheckDims ==
    /\ gen = "conv" /\ pc = "check_dims"
    /\ IF ConvDimsInvalid(args.a_rows, args.a_cols, args.w_dim)
         THEN SystemExit
         ELSE pc' = "check_kernel" /\ status' = status
    /\ UNCHANGED <<gen, argv, args, rng, lo, hi, i, dirs, files, out, exc, draws, seeds, run, first, files0, dirs0,
                   opened, closed>>

ConvCheckKernel ==
    /\ gen = "conv" /\ pc = "check_kernel"
    /\ IF KernelTooLarge(args.a_rows, args.a_cols, args.w_dim)
         THEN SystemExit
         ELSE pc' = "seed" /\ status' = status
    /\ UNCHANGED <<gen, argv, args, rng, lo, hi, i, dirs, files, out, exc, draws, seeds, run, first, files0, dirs0,
                   opened, closed>>

ConvSeed ==
    /\ gen = "conv" /\ pc = "seed"
    /\ rng' = SeedState(args.seed)
    /\ seeds' = seeds + 1
    /\ pc' = "check_bits"
    /\ UNCHANGED <<gen, argv, args, status, lo, hi, i, dirs, files, out, exc, draws, run, first, files0, dirs0,
                   opened, closed>>

ConvCheckBits ==
    /\ gen = "conv" /\ pc = "check_bits"
    /\ IF BitsInvalid(args.bits) THEN SystemExit
                                 ELSE pc' = "range" /\ status' = status
    /\ UNCHANGED <<gen, argv, args, rng, lo, hi, i, dirs, files, out, exc, draws, seeds, run, first, files0, dirs0,
                   opened, closed>>

ConvRange ==
    /\ gen = "conv" /\ pc = "range"
    /\ lo' = RangeLo(args.bits, args.signed)
    /\ hi' = RangeHi(args.bits, args.signed)
    /\ pc' = "makedirs"
    /\ UNCHANGED <<gen, argv, args, status, rng, i, dirs, files, out, exc, draws, seeds, run, first, files0, dirs0,
                   opened, closed>>

ConvMakedirs ==
    /\ gen = "conv" /\ pc = "makedirs"
    /\ dirs' = dirs \cup {args.dir}
    /\ pc' = "open0"
    /\ UNCHANGED <<gen, argv, args, status, rng, lo, hi, i, files, out, exc, draws, seeds, run, first, files0, dirs0,
                   opened, closed>>

ConvOpen0 ==
    /\ gen = "conv" /\ pc = "open0"
    /\ files' = OpenW(files, join(args.dir, args.p0_file))
    /\ i' = 0
    /\ pc' = "write0"
    /\ opened' = opened \cup {join(args.dir, args.p0_file)}
    /\ UNCHANGED <<gen, argv, args, status, rng, lo, hi, dirs, out, exc, draws, seeds, run, first, files0, dirs0,
                   closed>>

\* One pass of "for _ in range(A_ROWS)": a row of A_COLS draws and "\n".
ConvWrite0 ==
    /\ gen = "conv" /\ pc = "write0" /\ i < args.a_rows
    /\ LET d == DrawRow(rng, args.a_cols, lo, hi)
       IN  /\ files' = Write(files, join(args.dir, args.p0_file), RowText(d[1]))
           /\ draws' = draws \o d[1]
           /\ rng' = d[2]
    /\ i' = i + 1
    /\ UNCHANGED <<gen, argv, args, pc, status, lo, hi, dirs, out, exc, seeds, run, first, files0, dirs0,
                   opened, closed>>

\* The loop ends and the with block closes f0.
ConvClose0 ==
    /\ gen = "conv" /\ pc = "write0" /\ i >= args.a_rows
    /\ pc' = "open1"
    /\ closed' = closed \cup {join(args.dir, args.p0_file)}
    /\ UNCHANGED <<gen, argv, args, status, rng, lo, hi, i, dirs, files, out, exc, draws, seeds, run, first, files0, dirs0,
                   opened>>

ConvOpen1 ==
    /\ gen = "conv" /\ pc = "open1"
    /\ files' = OpenW(files, join(args.dir, args.p1_file))
    /\ i' = 0
    /\ pc' = "write1"
    /\ opened' = opened \cup {join(args.dir, args.p1_file)}
    /\ UNCHANGED <<gen, argv, args, status, rng, lo, hi, dirs, out, exc, draws, seeds, run, first, files0, dirs0,
                   closed>>

\* One pass of "for _ in range(W_DIM)": a row of W_DIM draws and "\n".
ConvWrite1 ==
    /\ gen = "conv" /\ pc = "write1" /\ i < args.w_dim
    /\ LET d == DrawRow(rng, args.w_dim, lo, hi)
       IN  /\ files' = Write(files, join(args.dir, args.p1_file), RowText(d[1]))
           /\ draws' = draws \o d[1]
           /\ rng' = d[2]
    /\ i' = i + 1
    /\ UNCHANGED <<gen, argv, args, pc, status, lo, hi, dirs, out, exc, seeds, run, first, files0, dirs0,
                   opened, closed>>

\* The loop ends and the with block closes f1.
ConvClose1 ==
    /\ gen = "conv" /\ pc = "write1" /\ i >= args.w_dim
    /\ pc' = "summary"
    /\ closed' = closed \cup {join(args.dir, args.p1_file)}
    /\ UNCHANGED <<gen, argv, args, status, rng, lo, hi, i, dirs, files, out, exc, draws, seeds, run, first, files0, dirs0,
                   opened>>

ConvSummary ==
    /\ gen = "conv" /\ pc = "summary"
    /\ TrySummary(2, 3)
    /\ UNCHANGED <<gen, argv, args, status, rng, lo, hi, i, dirs, files, draws, seeds, run, first, files0, dirs0,
                   opened, closed>>

ConvNext ==
    \/ ConvParseArgs \/ ConvCheckDims \/ ConvCheckKernel \/ ConvSeed
    \/ ConvCheckBits \/ ConvRange \/ ConvMakedirs \/ ConvOpen0 \/ ConvWrite0
    \/ ConvClose0 \/ ConvOpen1 \/ ConvWrite1 \/ ConvClose1 \/ ConvSummary

\* ----------------------------------------------- gen_linear_inputs.py main
\* ap.parse_args(): --signed (store_true, default False), no --unsigned.
LinParseArgs ==
    /\ gen = "linear" /\ pc = "parse_args"
    /\ IF argv.unsigned
         THEN /\ pc' = "exit" /\ status' = 2 /\ args' = args
         ELSE /\ args' = [n |-> argv.n, seed |-> argv.seed,
                          bits |-> argv.bits, signed |-> argv.signed,
                          dir |-> argv.dir, p0_file |-> argv.p0_file,
                          p1_file |-> argv.p1_file]
              /\ pc' = "seed" /\ status' = status
    /\ UNCHANGED <<gen, argv, rng, lo, hi, i, dirs, files, out, exc, draws, seeds, run, first, files0, dirs0,
                   opened, closed>>

\* "n = args.n" is followed by random.seed at once: n is not checked.
LinSeed ==
    /\ gen = "linear" /\ pc = "seed"
    /\ rng' = SeedState(args.seed)
    /\ seeds' = seeds + 1
    /\ pc' = "check_bits"
    /\ UNCHANGED <<gen, argv, args, status, lo, hi, i, dirs, files, out, exc, draws, run, first, files0, dirs0,
                   opened, closed>>

LinCheckBits ==
    /\ gen = "linear" /\ pc = "check_bits"
    /\ IF BitsInvalid(args.bits) THEN SystemExit
                                 ELSE pc' = "range" /\ status' = status
    /\ UNCHANGED <<gen, argv, args, rng, lo, hi, i, dirs, files, out, exc, draws, seeds, run, first, files0, dirs0,
                   opened, closed>>

LinRange ==
    /\ gen = "linear" /\ pc = "range"
    /\ lo' = RangeLo(args.bits, args.signed)
    /\ hi' = RangeHi(args.bits, args.signed)
    /\ pc' = "makedirs"
    /\ UNCHANGED <<gen, argv, args, status, rng, i, dirs, files, out, exc, draws, seeds, run, first, files0, dirs0,
                   opened, closed>>

LinMakedirs ==
    /\ gen = "linear" /\ pc = "makedirs"
    /\ dirs' = dirs \cup {args.dir}
    /\ pc' = "open0"
    /\ UNCHANGED <<gen, argv, args, status, rng, lo, hi, i, files, out, exc, draws, seeds, run, first, files0, dirs0,
                   opened, closed>>

LinOpen0 ==
    /\ gen = "linear" /\ pc = "open0"
    /\ files' = OpenW(files, join(args.dir, args.p0_file))
    /\ pc' = "write_x"
    /\ opened' = opened \cup {join(args.dir, args.p0_file)}
    /\ UNCHANGED <<gen, argv, args, status, rng, lo, hi, i, dirs, out, exc, draws, seeds, run, first, files0, dirs0,
                   closed>>

\* x: one line of n draws and "\n"; the with block closes f0.
LinWriteX ==
    /\ gen = "linear" /\ pc = "write_x"
    /\ LET d == DrawRow(rng, args.n, lo, hi)
       IN  /\ files' = Write(files, join(args.dir, args.p0_file), RowText(d[1]))
           /\ draws' = draws \o d[1]
           /\ rng' = d[2]
    /\ pc' = "open1"
    /\ closed' = closed \cup {join(args.dir, args.p0_file)}
    /\ UNCHANGED <<gen, argv, args, status, lo, hi, i, dirs, out, exc, seeds, run, first, files0, dirs0,
                   opened>>

LinOpen1 ==
    /\ gen = "linear" /\ pc = "open1"
    /\ files' = OpenW(files, join(args.dir, args.p1_file))
    /\ i' = 0
    /\ pc' = "write_W"
    /\ opened' = opened \cup {join(args.dir, args.p1_file)}
    /\ UNCHANGED <<gen, argv, args, status, rng, lo, hi, dirs, out, exc, draws, seeds, run, first, files0, dirs0,
                   closed>>

\* One pass of "for _ in range(n)": a row of W, n draws and "\n".
LinWriteW ==
    /\ gen = "linear" /\ pc = "write_W" /\ i < args.n
    /\ LET d == DrawRow(rng, args.n, lo, hi)
       IN  /\ files' = Write(files, join(args.dir, args.p1_file), RowText(d[1]))
           /\ draws' = draws \o d[1]
           /\ rng' = d[2]
    /\ i' = i + 1
    /\ UNCHANGED <<gen, argv, args, pc, status, lo, hi, dirs, out, exc, seeds, run, first, files0, dirs0,
                   opened, closed>>

\* After the loop: b, one line of n draws and "\n"; the with block closes f1.
LinWriteB ==
    /\ gen = "linear" /\ pc = "write_W" /\ i >= args.n
    /\ LET d == DrawRow(rng, args.n, lo, hi)
       IN  /\ files' = Write(files, join(args.dir, args.p1_file), RowText(d[1]))
           /\ draws' = draws \o d[1]
           /\ rng' = d[2]
    /\ pc' = "summary"
    /\ closed' = closed \cup {join(args.dir, args.p1_file)}
    /\ UNCHANGED <<gen, argv, args, status, lo, hi, i, dirs, out, exc, seeds, run, first, files0, dirs0,
                   opened>>

LinSummary ==
    /\ gen = "linear" /\ pc = "summary"
    /\ TrySummary(2, 3)
    /\ UNCHANGED <<gen, argv, args, status, rng, lo, hi, i, dirs, files, draws, seeds, run, first, files0, dirs0,
                   opened, closed>>

LinNext ==
    \/ LinParseArgs \/ LinSeed \/ LinCheckBits \/ LinRange \/ LinMakedirs
    \/ LinOpen0 \/ LinWriteX \/ LinOpen1 \/ LinWriteW \/ LinWriteB \/ LinSummary

\* ------------------------------------------------------------ a second run
\* The party files a finished run leaves: what is at the path of party 0
\* and, for the scripts that have one, at the path of party 1.
PartyFiles ==
    IF gen = "activation"
      THEN <<files[join(args.dir, args.p0_file)]>>
      ELSE <<files[join(args.dir, args.p0_file)], files[join(args.dir, args.p1_file)]>>

\* The same script is run again on the same file system with the same seed,
\* shape, bits and signedness options; the output names are chosen anew and
\* the new process starts from fresh PRNG entropy.
Rerun ==
    /\ pc = "exit" /\ status = 0 /\ run = 1
    /\ run' = 2
    /\ first' = [argv |-> argv, party |-> PartyFiles]
    /\ \E f0 \in FileInputs, f1 \in FileInputs :
         argv' = IF gen = "activation"
                   THEN [argv EXCEPT !.p0_file = f0]
                   ELSE [argv EXCEPT !.p0_file = f0, !.p1_file = f1]
    /\ rng' \in EntropyInputs
    /\ args' = NoArgs
    /\ pc' = "parse_args"
    /\ status' = 0
    /\ lo' = 0 /\ hi' = -1
    /\ i' = 0
    /\ out' = 0
    /\ exc' = "none"
    /\ draws' = <<>>
    /\ seeds' = 0
    /\ opened' = {}
    /\ closed' = {}
    /\ files0' = files
    /\ dirs0' = dirs
    /\ UNCHANGED <<gen, dirs, files>>

Next == ActNext \/ ConvNext \/ LinNext \/ ExceptPass \/ Return \/ Rerun

Spec == Init /\ [][Next]_vars

\* ------------------------------------------------- reading the files back
\* What the consumer of the files does: split into lines, split each line at
\* blanks, read each token as a decimal integer.
\* The first place of sep in text.
FirstAt(text, sep) ==
    CHOOSE k \in 1..Len(text) : text[k] = sep /\ \A j \in 1..(k - 1) : text[j] # sep

RECURSIVE Split(_, _)
\* The pieces of text between the occurrences of sep.
Split(text, sep) ==
    IF \A k \in 1..Len(text) : text[k] # sep THEN <<text>>
    ELSE LET k == FirstAt(text, sep)
         IN  <<SubSeq(text, 1, k - 1)>> \o Split(SubSeq(text, k + 1, Len(text)), sep)

\* The lines of a text; a final "\n" ends the last line and starts no new one.
Lines(text) ==
    LET parts == Split(text, "\n")
    IN  IF parts[Len(parts)] = <<>> THEN SubSeq(parts, 1, Len(parts) - 1) ELSE parts

\* The blank-separated tokens of a line.
Tokens(line) == SelectSeq(Split(line, " "), LAMBDA t : t # <<>>)

DigitSet == {Digits[d] : d \in 1..10}

IsDigit(c) == c \in DigitSet

DigitVal(c) ==
    CASE c = "0" -> 0 [] c = "1" -> 1 [] c = "2" -> 2 [] c = "3" -> 3 [] c = "4" -> 4
      [] c = "5" -> 5 [] c = "6" -> 6 [] c = "7" -> 7 [] c = "8" -> 8 [] c = "9" -> 9

\* A decimal integer: an optional "-" and one digit or more.
IsInt(tok) ==
    LET ds == IF tok # <<>> /\ Head(tok) = "-" THEN Tail(tok) ELSE tok
    IN  ds # <<>> /\ \A k \in 1..Len(ds) : IsDigit(ds[k])

RECURSIVE ParseNat(_, _)
ParseNat(ds, acc) ==
    IF ds = <<>> THEN acc ELSE ParseNat(Tail(ds), acc * 10 + DigitVal(Head(ds)))

ParseInt(tok) == IF Head(tok) = "-" THEN -ParseNat(Tail(tok), 0) ELSE ParseNat(tok, 0)

\* Every token of every line is a decimal integer.
WellFormed(text) ==
    LET ls == Lines(text)
    IN  \A l \in 1..Len(ls) :
          LET ts == Tokens(ls[l])
          IN  \A t \in 1..Len(ts) : IsInt(ts[t])

RECURSIVE ParseAll(_)
ParseAll(toks) ==
    IF toks = <<>> THEN <<>> ELSE <<ParseInt(Head(toks))>> \o ParseAll(Tail(toks))

RECURSIVE ValuesOfLines(_)
ValuesOfLines(ls) ==
    IF ls = <<>> THEN <<>> ELSE ParseAll(Tokens(Head(ls))) \o ValuesOfLines(Tail(ls))

\* The integers of a well-formed text, row-major.
Values(text) == ValuesOfLines(Lines(text))

\* A text of exactly r lines, each of exactly c integers.
HasShape(text, r, c) ==
    LET ls == Lines(text)
    IN  /\ WellFormed(text)
        /\ Len(ls) = r
        /\ \A l \in 1..Len(ls) : Len(Tokens(ls[l])) = c

\* ----------------------------------------------------- words of the claims
P0Path == join(argv.dir, argv.p0_file)
P1Path == join(argv.dir, argv.p1_file)

Finished == pc = "exit" /\ status = 0

\* The signedness the options select, as the documentation states it.
SignedSelected == IF gen = "activation" THEN ~argv.unsigned ELSE argv.signed

BitsInContract == 1 <= argv.bits /\ argv.bits <= 31

\* v lies in the range documented for (bits, signed); the unsigned upper end
\* 2^bits - 1 is compared without forming 2^31.
InDocumentedRange(v, bits, signed) ==
    IF signed
      THEN -(2 ^ (bits - 1)) <= v /\ v <= 2 ^ (bits - 1) - 1
      ELSE 0 <= v /\ v - 2 ^ (bits - 1) <= 2 ^ (bits - 1) - 1

ShapeNonPositive ==
    CASE gen = "activation" -> argv.len <= 0
      [] gen = "conv" -> argv.a_rows <= 0 \/ argv.a_cols <= 0 \/ argv.w_dim <= 0
      [] gen = "linear" -> argv.n <= 0

KernelExceedsInput ==
    gen = "conv" /\ (argv.w_dim > argv.a_rows \/ argv.w_dim > argv.a_cols)

\* Nothing at the target paths was created or changed by this run.
Untouched == files = files0 /\ dirs = dirs0 /\ opened = {}

PastValidation ==
    pc \in {"range", "makedirs", "open0", "write0", "write_x", "open1",
            "write1", "write_W", "summary", "except", "return"}

\* The draws the shape calls for.
ExpectedDraws ==
    CASE gen = "activation" -> argv.len
      [] gen = "conv" -> argv.a_rows * argv.a_cols + argv.w_dim * argv.w_dim
      [] gen = "linear" -> argv.n + argv.n * argv.n + argv.n

\* The lines a complete summary prints.
SummaryLines == IF gen = "activation" THEN 2 ELSE 3

\* ------------------------------------------- the two defects, set apart
\* The scripts do not compare the two output names, and the linear-layer
\* script does not check n.  Where the names differ and n is not negative,
\* the statements C1, C5, C6, C7 and C8 make do hold (see below).
DistinctNames == gen = "activation" \/ P0Path # P1Path

LinearNotNegative == gen = "linear" => argv.n >= 0

\* ------------------------------------------------------------------ claims

\* C1 (determinism): a second run with the same seed, shape, bits and
\* signedness leaves party files byte-identical to those of the first run,
\* whatever else differs between the runs (output names, entropy, old files).
C1_Determinism ==
    (run = 2 /\ Finished) => PartyFiles = first.party

\* The same with the output names kept too, for comparison with C1.
DeterminismSameNames ==
    (run = 2 /\ Finished /\ argv = first.argv) => PartyFiles = first.party

\* C2 (range containment): every file this run has opened holds decimal
\* integers only, each inside the range documented for the run's bits and
\* signedness, and each one a value that was drawn.
C2_RangeContainment ==
    \A p \in opened :
        /\ BitsInContract
        /\ LET ls    == Lines(files[p])
               drawn == {draws[d] : d \in 1..Len(draws)}
           IN  \A l \in 1..Len(ls) :
                 LET ts == Tokens(ls[l])
                 IN  \A t \in 1..Len(ts) :
                       /\ IsInt(ts[t])
                       /\ InDocumentedRange(ParseInt(ts[t]), argv.bits, SignedSelected)
                       /\ ParseInt(ts[t]) \in drawn

\* C2 happens: a finished run whose files hold a negative value and the
\* upper end of a signed range.
C2_Witness ==
    /\ Finished /\ SignedSelected /\ argv.bits = 2
    /\ \E p \in opened : LET vs == Values(files[p]) IN \E k \in 1..Len(vs) : vs[k] < 0
    /\ \E p \in opened : LET vs == Values(files[p]) IN \E k \in 1..Len(vs) : vs[k] = 1

\* C3 (validation precedence): with a bit width outside [1,31], or with a
\* convolution kernel larger than its input, the run never gets past
\* validation, ends with a non-zero status, and creates or changes neither
\* the directory nor any file.
C3_ValidationPrecedence ==
    (~BitsInContract \/ KernelExceedsInput) =>
        /\ Untouched
        /\ ~PastValidation
        /\ (pc = "exit" => status # 0)

\* C3 happens: a convolution run with positive dimensions, valid bits and a
\* kernel larger than its input has ended, old files present.
C3_Witness ==
    /\ pc = "exit" /\ status = 1
    /\ KernelExceedsInput /\ ~ShapeNonPositive /\ BitsInContract
    /\ files0 # <<>>

\* C4 (non-positive shape): with a non-positive shape dimension the run
\* ends with a non-zero status and creates or changes no party file.
C4_NonPositiveShapeFails ==
    ShapeNonPositive =>
        /\ files = files0 /\ opened = {}
        /\ (pc = "exit" => status # 0)

\* C5 (convolution shape): after a successful convolution run the file of
\* party 0 is A_ROWS lines of A_COLS integers and the file of party 1 is
\* W_DIM lines of W_DIM integers.
C5_ConvShape ==
    (gen = "conv" /\ Finished) =>
        /\ HasShape(files[P0Path], argv.a_rows, argv.a_cols)
        /\ HasShape(files[P1Path], argv.w_dim, argv.w_dim)

\* C6 (linear-layer shape): after a successful linear-layer run the file of
\* party 0 is 1 line of n integers and the file of party 1 is n + 1 lines of
\* n integers each.
C6_LinearShape ==
    (gen = "linear" /\ Finished) =>
        /\ HasShape(files[P0Path], 1, argv.n)
        /\ HasShape(files[P1Path], argv.n + 1, argv.n)

\* C7 (draw order): no value is drawn before the one call of random.seed, and
\* after a successful run the values of the file of party 0 followed by those
\* of the file of party 1 are the draws, in order, as many as the shape
\* calls for.
C7_DrawOrder ==
    /\ (draws # <<>> => seeds = 1)
    /\ Finished =>
         /\ seeds = 1
         /\ Len(draws) = ExpectedDraws
         /\ draws = (IF gen = "activation"
                       THEN Values(files[P0Path])
                       ELSE Values(files[P0Path]) \o Values(files[P1Path]))

\* A step of a run leaves every file the run has closed as it was.
ClosedFilesKept ==
    \A p \in closed : run' = run => (p \in DOMAIN files' /\ files'[p] = files[p])

\* C8 (written once): a file this run has finished writing is not changed by
\* any later step of the same run.
C8_WrittenOnce == [][ClosedFilesKept]_vars

\* The steps of the summary and of its handler change no file or directory.
SummaryKeepsFiles ==
    pc \in {"summary", "except", "return"} => (files' = files /\ dirs' = dirs)

\* The run has ended after a summary that printed fewer lines than a full one.
SummaryBrokeOff == pc = "exit" /\ closed # {} /\ out < SummaryLines

C10_SignednessSelection ==
    /\ hi >= lo =>
         IF SignedSelected
           THEN lo = -(2 ^ (argv.bits - 1)) /\ hi = 2 ^ (argv.bits - 1) - 1
           ELSE lo = 0 /\ hi - 2 ^ (argv.bits - 1) = 2 ^ (argv.bits - 1) - 1
    /\ (gen # "activation" /\ argv.unsigned) =>
         /\ hi < lo
         /\ pc \in {"parse_args", "exit"}
         /\ (pc = "exit" => status = 2)

\* C10 happens: the threshold script, given both options, has derived the
\* unsigned range.
C10_Witness ==
    /\ gen = "activation" /\ argv.signed /\ argv.unsigned
    /\ hi >= lo /\ lo = 0

\* ------------------------------------------- what holds without the defects
DeterminismDistinctNames ==
    (run = 2 /\ Finished /\ DistinctNames
       /\ (gen = "activation" \/ first.argv.p0_file # first.argv.p1_file))
        => PartyFiles = first.party

ConvShapeDistinctNames == DistinctNames => C5_ConvShape

LinearShapeDistinctNames == (DistinctNames /\ LinearNotNegative) => C6_LinearShape

DrawOrderDistinctNames == (DistinctNames /\ LinearNotNegative) => C7_DrawOrder

WrittenOnceDistinctNames == [][DistinctNames => ClosedFilesKept]_vars

====
